---- MODULE Spec2Model ----
(***************************************************************************)
(* A model of the neurex-runtime inference path: the Runtime class         *)
(* (loadSavedModel, predict, #Feedforward), the Layers builder, the        *)
(* activation registry and the dot-product kernel.                         *)
(*                                                                         *)
(* JavaScript values that may be undefined, a number, NaN or a string are  *)
(* records [t, n, s] so that every comparison in the model is between      *)
(* values of one shape.  Arrays that may be undefined are records [t, a].  *)
(***************************************************************************)
EXTENDS Integers, Sequences, FiniteSets, TLC

\* ------------------------------------------------------------------ bounds

\* Largest layer width (and input width) of the sample models.
MaxSize == 2

\* Largest number of input vectors in a predict batch.
MaxBatch == 2

\* ------------------------------------------------------------- JS values

Undef == [t |-> "undefined", n |-> 0, s |-> ""]

NaN == [t |-> "NaN", n |-> 0, s |-> ""]

Num(n) == [t |-> "number", n |-> n, s |-> ""]

Str(s) == [t |-> "string", n |-> 0, s |-> s]

\* An array value, and the undefined that stands where an array is expected.
Arr(a) == [t |-> "array", a |-> a]

NoArr == [t |-> "undefined", a |-> <<>>]

\* JavaScript truthiness of a scalar: undefined, NaN, 0 and "" are falsy.
Truthy(v) ==
    CASE v.t = "undefined" -> FALSE
      [] v.t = "NaN" -> FALSE
      [] v.t = "number" -> v.n # 0
      [] v.t = "string" -> v.s # ""

\* v <= 0 as JavaScript evaluates it for the values of the model: a
\* non-numeric string converts to NaN and every comparison with NaN is false.
LeqZero(v) == v.t = "number" /\ v.n <= 0

\* ------------------------------------------------- kernels/activations.js

\* The own properties of the exported activation object, and of its
\* derivatives object.
ActivationKeys == {"relu", "sigmoid", "tanh", "linear", "softmax", "derivatives"}

DerivativeKeys == {"relu", "sigmoid", "tanh", "linear", "softmax"}

\* Properties every plain object inherits from Object.prototype whose names
\* are all lower case (String.prototype.toLowerCase leaves them as they are).
ObjectPrototypeKeys == {"constructor", "__proto__"}

\* activation[name] is truthy.
ActivationLookup(name) == name \in ActivationKeys \cup ObjectPrototypeKeys

\* activation.derivatives[name] is truthy.
DerivativeLookup(name) == name \in DerivativeKeys \cup ObjectPrototypeKeys

\* String.prototype.toLowerCase on the names the sample payloads use.
ToLowerCase(s) ==
    CASE s = "ReLU" -> "relu"
      [] s = "RELU" -> "relu"
      [] s = "Linear" -> "linear"
      [] s = "LINEAR" -> "linear"
      [] s = "SoftMax" -> "softmax"
      [] s = "Sigmoid" -> "sigmoid"
      [] s = "Tanh" -> "tanh"
      [] s = "Swish" -> "swish"
      [] s = "Derivatives" -> "derivatives"
      [] OTHER -> s

\* A rectifier that does not clip.
reluUnclipped(x) == x

\* relu: Math.max(0, x); NaN stays NaN.
relu(x) == IF x.t = "number" THEN Num(IF x.n > 0 THEN x.n ELSE 0) ELSE NaN

\* linear: the identity.
linear(x) == x

\* sigmoid and tanh of a number: kept as the term f(n), which is the same
\* number for the same n only, both functions being strictly increasing.
sigmoid(x) == IF x.t = "number" THEN [t |-> "sigmoid", n |-> x.n, s |-> ""] ELSE NaN

tanh(x) == IF x.t = "number" THEN [t |-> "tanh", n |-> x.n, s |-> ""] ELSE NaN

\* ------------------------------------------ kernels/matrixMultiplication.js

\* a + b and a * b on numbers; NaN (and undefined, which converts to NaN)
\* is absorbing.
Add(a, b) == IF a.t = "number" /\ b.t = "number" THEN Num(a.n + b.n) ELSE NaN

Mul(a, b) == IF a.t = "number" /\ b.t = "number" THEN Num(a.n * b.n) ELSE NaN

\* A sum that starts at zero instead of the bias.
BiasIgnored(biases, neuron) == Num(0)

\* biases[neuron]: an element of the bias vector.
BiasAt(biases, neuron) == Num(biases[neuron])

\* weights[i][neuron], where weights[i] is a row: undefined past the row's end.
WeightAt(weights, i, neuron) ==
    IF neuron <= Len(weights.a[i]) THEN Num(weights.a[i][neuron]) ELSE Undef

\* The inner loop: sum += input[i] * weights[i][neuron] for i = 1..n.
RECURSIVE DotFrom(_, _, _, _, _)
DotFrom(sum, input, weights, neuron, i) ==
    IF i > Len(input) THEN sum
    ELSE DotFrom(Add(sum, Mul(input[i], WeightAt(weights, i, neuron))),
                 input, weights, neuron, i + 1)

\* computeForward throws a TypeError when biases is undefined (biases.length),
\* or when a row weights[i] it indexes is undefined: weights itself undefined,
\* or fewer rows than input entries.  The rows are indexed only when there is
\* at least one neuron and one input entry.
ComputeForwardThrows(input, weights, biases) ==
    \/ biases.t = "undefined"
    \/ /\ Len(biases.a) > 0
       /\ Len(input) > 0
       /\ \/ weights.t = "undefined"
          \/ Len(weights.a) < Len(input)

\* computeForward(input, weights, biases) where it does not throw: one sum
\* per entry of biases.
computeForward(input, weights, biases) ==
    [neuron \in 1..Len(biases.a) |->
        DotFrom(BiasAt(biases.a, neuron), input, weights, neuron, 1)]

\* --------------------------------------------------------- layers/layers.js

\* What a layer slot can hold after reconstruction: a descriptor, or
\* undefined (a builder that caught its own error returns nothing).
UndefinedLayer ==
    [layer_name |-> "undefined", activation_function |-> "",
     layer_size |-> Undef, feedforward |-> FALSE]

\* Layers.inputShape({features}): a descriptor when features is truthy; the
\* other branch needs height, width and depth, which the caller never gives,
\* so it throws, catches, prints and returns undefined.
inputShape(features) ==
    IF Truthy(features)
    THEN [layer_name |-> "input_layer", activation_function |-> "",
          layer_size |-> features, feedforward |-> FALSE]
    ELSE UndefinedLayer

\* Layers.connectedLayer(activation_function, layer_size): every error is
\* thrown and caught inside, and the method then returns undefined.  A name
\* that is not a string has no toLowerCase, which throws as well.
connectedLayerFails(activation_function, layer_size) ==
    \/ ~Truthy(activation_function)
    \/ ~Truthy(layer_size)
    \/ LeqZero(layer_size)
    \/ activation_function.t # "string"
    \/ ~ActivationLookup(ToLowerCase(activation_function.s))
    \/ ~DerivativeLookup(ToLowerCase(activation_function.s))

connectedLayer(activation_function, layer_size) ==
    IF connectedLayerFails(activation_function, layer_size)
    THEN UndefinedLayer
    ELSE [layer_name |-> "connected_layer",
          activation_function |-> ToLowerCase(activation_function.s),
          layer_size |-> layer_size, feedforward |-> TRUE]

\* The methods of class Layers.  flatten is not one of them.
LayersMethods == {"inputShape", "connectedLayer"}

\* ----------------------------------------------------- the container file

\* The first bytes of a file, as byte values: 'N' 'R' 'X' '2' and version 2.
MagicBytes == <<78, 82, 88, 50>>

SupportedVersion == 2

\* Buffer.toString('utf-8') on the header slice: an ASCII byte decodes to its
\* own code point; a byte of 128 or more is not ASCII and decodes (alone or
\* with its neighbours) to code points that are not ASCII either, written
\* here as U+FFFD.
Utf8Decode(bytes) ==
    [i \in DOMAIN bytes |-> IF bytes[i] < 128 THEN bytes[i] ELSE 65533]

\* The string literal 'NRX2' as code points.
NRX2 == <<78, 82, 88, 50>>

\* rawBuffer.slice(0, 4): the first four bytes, or all of a shorter file.
HeaderSlice(head) == SubSeq(head, 1, IF Len(head) < 4 THEN Len(head) ELSE 4)

\* rawBuffer[4]: the fifth byte, undefined when the file has fewer.
VersionByte(head) == IF Len(head) >= 5 THEN Num(head[5]) ELSE Undef

\* A header check that looks at the first three bytes only.
BadMagicThreeBytes(head) ==
    Utf8Decode(SubSeq(head, 1, IF Len(head) < 3 THEN Len(head) ELSE 3)) # SubSeq(NRX2, 1, 3)

\* header !== 'NRX2'
BadMagic(head) == Utf8Decode(HeaderSlice(head)) # NRX2

\* A version check that rejects only versions newer than the supported one.
BadVersionNewerOnly(head) ==
    VersionByte(head).t = "number" /\ VersionByte(head).n > SupportedVersion

\* version !== 0x02
BadVersion(head) == VersionByte(head) # Num(SupportedVersion)

\* path.extname on the file names the model passes.
ExtName(name) ==
    CASE name = "model.nrx" -> ".nrx"
      [] name = "other.nrx" -> ".nrx"
      [] name = "model.txt" -> ".txt"
      [] name = "model.NRX" -> ".NRX"
      [] OTHER -> ""

\* ------------------------------------------------ Runtime (core/runtime.js)

\* The messages the code throws (and its catch blocks print).  The library
\* errors are named by their class.
MsgNoModel == "No model provided"

MsgFileType == "Invalid file type. Only .nrx model files are supported."

MsgIo == "ENOENT: no such file or directory"

MsgFormat == "Invalid file format. Not a valid NRX model."

MsgVersion == "Unsupported NRX version: "

MsgInflate == "zlib: inflate failed"

MsgJson == "SyntaxError: JSON.parse"

MsgTypeError == "TypeError"

MsgLayerType == "[ERROR] Unknown layer type found in model."

MsgSuccess == "[SUCCESS]------- Model successfully loaded"

MsgNoInputs == "[ERROR]-------No inputs"

MsgShape == "[ERROR]-------Shape Mismatch"

\* A printed line: the message and the value interpolated into it.
Line(msg, value) == [msg |-> msg, value |-> value]

\* new Runtime(): the constructor sets six fields; the metadata fields do not
\* exist yet and read as undefined.
Constructed ==
    [task |-> Undef, loss_function |-> Undef, epoch_count |-> Undef,
     batch_size |-> Undef, optimizer |-> Undef, learning_rate |-> Undef,
     input_size |-> Num(0), output_size |-> Num(0), num_layers |-> Num(0),
     weights |-> Arr(<<>>), biases |-> Arr(<<>>), layers |-> <<>>]

\* The callback of modelData.layers.map throws on this entry: an unknown tag
\* throws an Error, and "flatten_layer" calls layerBuilder.flatten, which
\* class Layers does not define (a TypeError).
LayerThrows(layerData) ==
    \/ layerData.layer_name \notin {"connected_layer", "input_layer", "flatten_layer"}
    \/ /\ layerData.layer_name = "flatten_layer"
       /\ "flatten" \notin LayersMethods

\* The callback's result on an entry on which it does not throw.
NewLayer(layerData) ==
    IF layerData.layer_name = "connected_layer"
    THEN connectedLayer(layerData.activation_function_name, layerData.layer_size)
    ELSE inputShape(layerData.layer_size)

\* The first entry on which the callback throws, 0 when there is none.
FirstThrowing(layers) ==
    IF \E i \in DOMAIN layers : LayerThrows(layers[i])
    THEN CHOOSE i \in DOMAIN layers :
            /\ LayerThrows(layers[i])
            /\ \A j \in 1..(i - 1) : ~LayerThrows(layers[j])
    ELSE 0

\* What the map callback throws on an entry.
LayerError(layerData) ==
    IF layerData.layer_name = "flatten_layer"
    THEN Line(MsgTypeError, Str("layerBuilder.flatten is not a function"))
    ELSE Line(MsgLayerType, Str(layerData.layer_name))

\* The stages of loadSavedModel in source order.
StageNames ==
    <<"argument", "extension", "read", "magic", "version", "inflate",
      "parse", "assign", "layers", "success">>

\* The stage at which loadSavedModel(model) stops, given what the disk holds
\* at the path: the first check that throws, or "success".
LoadStop(model, disk) ==
    CASE ~Truthy(model) -> 1
      [] ExtName(model.s) # ".nrx" -> 2
      [] disk.t = "absent" -> 3
      [] BadMagic(disk.head) -> 4
      [] BadVersion(disk.head) -> 5
      [] disk.payload.kind \in {"empty", "corrupt"} -> 6
      [] disk.payload.kind = "badjson" -> 7
      [] disk.payload.kind = "null" -> 8
      [] disk.payload.data.layers.t = "undefined" -> 9
      [] FirstThrowing(disk.payload.data.layers.a) # 0 -> 9
      [] OTHER -> 10

\* The line the call prints: the caught error's message, or the success line.
LoadLine(model, disk) ==
    LET stop == LoadStop(model, disk) IN
    CASE stop = 1 -> Line(MsgNoModel, Undef)
      [] stop = 2 -> Line(MsgFileType, Undef)
      [] stop = 3 -> Line(MsgIo, Undef)
      [] stop = 4 -> Line(MsgFormat, Undef)
      [] stop = 5 -> Line(MsgVersion, VersionByte(disk.head))
      [] stop = 6 -> Line(MsgInflate, Undef)
      [] stop = 7 -> Line(MsgJson, Undef)
      [] stop = 8 -> Line(MsgTypeError, Str("Cannot read properties of null"))
      [] stop = 9 ->
            IF disk.payload.data.layers.t = "undefined"
            THEN Line(MsgTypeError, Str("Cannot read properties of undefined"))
            ELSE LayerError(disk.payload.data.layers.a[
                                FirstThrowing(disk.payload.data.layers.a)])
      [] OTHER -> Line(MsgSuccess, Undef)

\* The eleven assignments this.task = modelData.task ... this.biases =
\* modelData.biases, which run as soon as modelData is not null.
AssignProperties(this, modelData) ==
    [this EXCEPT !.task = modelData.task,
                 !.loss_function = modelData.loss_function,
                 !.epoch_count = modelData.epoch,
                 !.batch_size = modelData.batch_size,
                 !.optimizer = modelData.optimizer,
                 !.learning_rate = modelData.learning_rate,
                 !.input_size = modelData.input_size,
                 !.output_size = modelData.output_size,
                 !.num_layers = modelData.num_layers,
                 !.weights = modelData.weights,
                 !.biases = modelData.biases]

\* this.layers = modelData.layers.map(...), reached only when no entry throws.
AssignLayers(this, modelData) ==
    [this EXCEPT !.layers = [i \in DOMAIN modelData.layers.a |->
                                NewLayer(modelData.layers.a[i])]]

\* The Runtime's fields after loadSavedModel(model).
LoadFields(this, model, disk) ==
    LET stop == LoadStop(model, disk) IN
    IF stop <= 8 THEN this
    ELSE IF stop = 9 THEN AssignProperties(this, disk.payload.data)
    ELSE AssignLayers(AssignProperties(this, disk.payload.data), disk.payload.data)

\* The lines the layer builders print (each catches its own error) for the
\* entries the map callback gets through: all of them, or those before the
\* first entry on which it throws.
BuilderLine(layerData) ==
    IF layerData.layer_name = "connected_layer"
    THEN IF \/ ~Truthy(layerData.activation_function_name)
            \/ ~Truthy(layerData.layer_size)
            \/ LeqZero(layerData.layer_size)
         THEN Line("[ERROR]------- Layer Error", layerData.activation_function_name)
         ELSE IF layerData.activation_function_name.t # "string"
         THEN Line(MsgTypeError, Str("toLowerCase is not a function"))
         ELSE Line("[ERROR]------- Activation function or its derivative not found or invalid,",
                   Str(ToLowerCase(layerData.activation_function_name.s)))
    ELSE Line("[ERROR]------- Invalid input shape config", Undef)

RECURSIVE BuilderLines(_, _, _)
BuilderLines(layers, i, last) ==
    IF i > last THEN <<>>
    ELSE (IF NewLayer(layers[i]) = UndefinedLayer
          THEN <<BuilderLine(layers[i])>> ELSE <<>>)
         \o BuilderLines(layers, i + 1, last)

\* Everything one loadSavedModel call prints, in order.
LoadConsole(model, disk) ==
    LET stop == LoadStop(model, disk)
        layers == disk.payload.data.layers
        built == IF stop < 9 \/ layers.t = "undefined" THEN 0
                 ELSE IF stop = 9 THEN FirstThrowing(layers.a) - 1
                 ELSE Len(layers.a)
    IN (IF built = 0 THEN <<>> ELSE BuilderLines(layers.a, 1, built))
       \o <<LoadLine(model, disk)>>

\* --------------------------------------------------------- sample payloads

\* A weight matrix with fan_in rows and fan_out columns, entries in -1..1, and
\* a bias vector.
SampleWeights(fan_in, fan_out) ==
    [i \in 1..fan_in |-> [j \in 1..fan_out |-> ((i + j) % 3) - 1]]

SampleBiases(fan_out) == [j \in 1..fan_out |-> j - 1]

DenseEntry(name, size) ==
    [layer_name |-> "connected_layer", activation_function_name |-> name,
     layer_size |-> size]

InputEntry(size) ==
    [layer_name |-> "input_layer", activation_function_name |-> Undef,
     layer_size |-> size]

TaggedEntry(tag) ==
    [layer_name |-> tag, activation_function_name |-> Undef, layer_size |-> Undef]

\* A saved model with one Dense layer, fan_in inputs and fan_out outputs.
OneLayer(fan_in, fan_out, name) ==
    [task |-> Str("regression"), loss_function |-> Str("mse"),
     epoch |-> Num(10 * fan_in + fan_out), batch_size |-> Num(4),
     optimizer |-> Str("sgd"), learning_rate |-> Num(1),
     input_size |-> Num(fan_in), output_size |-> Num(fan_out),
     num_layers |-> Num(1),
     weights |-> Arr(<<SampleWeights(fan_in, fan_out)>>),
     biases |-> Arr(<<SampleBiases(fan_out)>>),
     layers |-> Arr(<<DenseEntry(Str(name), Num(fan_out))>>)]

\* A saved model with two Dense layers: relu then linear.
TwoLayer(fan_in, hidden, fan_out) ==
    [task |-> Str("classification"), loss_function |-> Str("mae"),
     epoch |-> Num(100 + 10 * fan_in + fan_out), batch_size |-> Num(8),
     optimizer |-> Str("adam"), learning_rate |-> Num(2),
     input_size |-> Num(fan_in), output_size |-> Num(fan_out),
     num_layers |-> Num(2),
     weights |-> Arr(<<SampleWeights(fan_in, hidden), SampleWeights(hidden, fan_out)>>),
     biases |-> Arr(<<SampleBiases(hidden), SampleBiases(fan_out)>>),
     layers |-> Arr(<<DenseEntry(Str("relu"), Num(hidden)),
                      DenseEntry(Str("linear"), Num(fan_out))>>)]

\* The model of the two worked scenarios: three inputs, one Dense relu layer
\* of two neurons, weights [[1,0],[0,1],[1,1]] and the given biases.
ScenarioModel(biases) ==
    [OneLayer(3, 2, "relu") EXCEPT !.weights = Arr(<<<<<<1, 0>>, <<0, 1>>, <<1, 1>>>>>>),
                                   !.biases = Arr(<<biases>>)]

ScenarioPayloads == {ScenarioModel(<<0, 0>>), ScenarioModel(<<-1, -1>>)}

\* Payloads that satisfy every invariant of the data model.
ValidPayloads ==
    {OneLayer(m, n, name) : m \in 1..MaxSize, n \in 1..MaxSize, name \in {"relu", "linear"}}
    \cup {TwoLayer(m, MaxSize, n) : m \in 1..MaxSize, n \in 1..MaxSize}
    \cup ScenarioPayloads

\* modelData when the decoded JSON is not an object: every key reads undefined.
EmptyObject ==
    [task |-> Undef, loss_function |-> Undef, epoch |-> Undef,
     batch_size |-> Undef, optimizer |-> Undef, learning_rate |-> Undef,
     input_size |-> Undef, output_size |-> Undef, num_layers |-> Undef,
     weights |-> NoArr, biases |-> NoArr, layers |-> NoArr]

\* The payloads the faulty variants are made from.
FaultBase == {OneLayer(MaxSize, 1, "relu"), TwoLayer(1, MaxSize, MaxSize)}

\* A required key missing, or holding a value of the wrong type.
KeyFaults(p) ==
    {[p EXCEPT !.task = Undef], [p EXCEPT !.loss_function = Undef],
     [p EXCEPT !.epoch = Undef], [p EXCEPT !.batch_size = Undef],
     [p EXCEPT !.optimizer = Undef], [p EXCEPT !.learning_rate = Undef],
     [p EXCEPT !.input_size = Undef], [p EXCEPT !.output_size = Undef],
     [p EXCEPT !.num_layers = Undef], [p EXCEPT !.weights = NoArr],
     [p EXCEPT !.biases = NoArr], [p EXCEPT !.layers = NoArr],
     [p EXCEPT !.task = Num(7)], [p EXCEPT !.epoch = Str("ten")],
     [p EXCEPT !.input_size = Str("two")], [p EXCEPT !.num_layers = Str("one")]}

\* The first entry of layers replaced, or an entry added in front.
LayerFaults(p) ==
    {[p EXCEPT !.layers.a[1] = e] :
        e \in {TaggedEntry("conv_layer"), TaggedEntry("flatten_layer"),
               TaggedEntry("Connected_Layer"),
               DenseEntry(Str("Swish"), p.layers.a[1].layer_size),
               DenseEntry(Str("ReLU"), p.layers.a[1].layer_size),
               DenseEntry(Str("derivatives"), p.layers.a[1].layer_size),
               DenseEntry(Str("constructor"), p.layers.a[1].layer_size),
               DenseEntry(Undef, p.layers.a[1].layer_size),
               DenseEntry(Num(1), p.layers.a[1].layer_size),
               DenseEntry(Str("relu"), Undef),
               DenseEntry(Str("relu"), Num(0)),
               DenseEntry(Str("relu"), Num(-1))}}
    \cup {[p EXCEPT !.layers.a = <<e>> \o @] :
            e \in {InputEntry(p.input_size), InputEntry(Undef)}}
    \cup {[p EXCEPT !.layers.a = <<InputEntry(p.input_size)>> \o @,
                    !.num_layers = Num(@.n + 1)]}
    \cup {[p EXCEPT !.layers.a = @ \o <<TaggedEntry("conv_layer")>>]}

\* Lengths and shapes of layers, weights and biases that do not agree.
ShapeFaults(p) ==
    {[p EXCEPT !.weights.a = @ \o <<SampleWeights(1, 1)>>],
     [p EXCEPT !.weights.a = Tail(@)],
     [p EXCEPT !.biases.a = @ \o <<SampleBiases(1)>>],
     [p EXCEPT !.biases.a = Tail(@)],
     [p EXCEPT !.layers.a = Tail(@)],
     [p EXCEPT !.num_layers = Num(@.n + 1)],
     [p EXCEPT !.num_layers = Num(@.n - 1)],
     [p EXCEPT !.weights.a[1] = Tail(@)],
     [p EXCEPT !.weights.a[1] = @ \o <<@[1]>>],
     [p EXCEPT !.weights.a[1] = [i \in DOMAIN @ |-> Tail(@[i])]],
     [p EXCEPT !.biases.a[1] = @ \o <<1>>],
     [p EXCEPT !.biases.a[1] = Tail(@)],
     [p EXCEPT !.input_size = Num(@.n + 1)],
     [p EXCEPT !.output_size = Num(@.n + 1)],
     [p EXCEPT !.layers.a[1].layer_size = Num(@.n + 1)]}

FaultyPayloads ==
    UNION {KeyFaults(p) \cup LayerFaults(p) \cup ShapeFaults(p) : p \in FaultBase}

Payloads == ValidPayloads \cup FaultyPayloads

\* ------------------------------------------------------------ sample files

NoFile == [t |-> "absent", head |-> <<>>, payload |-> [kind |-> "empty", data |-> EmptyObject]]

File(head, kind, data) ==
    [t |-> "file", head |-> head, payload |-> [kind |-> kind, data |-> data]]

GoodHead == MagicBytes \o <<SupportedVersion>>

\* Byte values the sample headers are made of: the magic's letters in both
\* cases, the versions around the supported one, 0, and a non-ASCII byte.
HeadBytes == {78, 82, 88, 50, 110, 114, 120, 0, 1, 2, 3, 255}

\* The good header cut short, and the good header with one byte replaced.
SampleHeads ==
    {SubSeq(GoodHead, 1, k) : k \in 0..5}
    \cup {[GoodHead EXCEPT ![i] = b] : i \in 1..5, b \in HeadBytes}

\* What may follow the header: nothing, bytes inflate rejects, text JSON.parse
\* rejects, the JSON text null, a JSON scalar, or an object.
BadBodies ==
    {[kind |-> "empty", data |-> EmptyObject],
     [kind |-> "corrupt", data |-> EmptyObject],
     [kind |-> "badjson", data |-> EmptyObject],
     [kind |-> "null", data |-> EmptyObject],
     [kind |-> "object", data |-> EmptyObject]}

SamplePayload == OneLayer(1, 1, "relu")

\* A file of fewer than six bytes has no payload bytes.
Files ==
    {File(GoodHead, "object", p) : p \in Payloads}
    \cup {File(GoodHead, b.kind, b.data) : b \in BadBodies}
    \cup {File(h, IF Len(h) < 5 THEN "empty" ELSE k, IF Len(h) < 5 \/ k # "object" THEN EmptyObject ELSE SamplePayload) :
            h \in SampleHeads, k \in {"object", "corrupt"}}

\* The arguments loadSavedModel is called with.
ModelArgs ==
    {Undef, Str(""), Str("model.nrx"), Str("model.txt"), Str("model.NRX"), Str("model")}

\* The calls of loadSavedModel: <<model, what the disk holds at the path>>.
\* Every sample file under a good name, and every argument on a good file.
LoadCalls ==
    {<<Str("model.nrx"), f>> : f \in Files \cup {NoFile}}
    \cup {<<m, File(GoodHead, "object", SamplePayload)>> : m \in ModelArgs}
    \cup {<<Str("model.txt"), NoFile>>}

\* ------------------------------------------------ predict and #Feedforward

\* The number of iterations of `layer_index < this.num_layers`: undefined and
\* a non-numeric string convert to NaN, and the comparison is then false.
LoopCount(num_layers) ==
    IF num_layers.t = "number" /\ num_layers.n > 0 THEN num_layers.n ELSE 0

\* this.layers[i], this.weights[i], this.biases[i] (1-based here): undefined
\* past the end of the array.
LayerAt(this, i) == IF i <= Len(this.layers) THEN this.layers[i] ELSE UndefinedLayer

WeightsAt(this, i) ==
    IF i <= Len(this.weights.a) THEN Arr(this.weights.a[i]) ELSE NoArr

BiasesAt(this, i) ==
    IF i <= Len(this.biases.a) THEN Arr(this.biases.a[i]) ELSE NoArr

\* activation[function_name] is a function that can be called: every own key
\* but none of the registry's non-function values.
Callable(function_name) == function_name \in DerivativeKeys \cup {"constructor"}

\* activation[function_name](z) for one pre-activation value.  The inherited
\* "constructor" is Object, which boxes its argument: the same number.
Activate(function_name, z) ==
    CASE function_name = "relu" -> relu(z)
      [] function_name = "linear" -> linear(z)
      [] function_name = "sigmoid" -> sigmoid(z)
      [] function_name = "tanh" -> tanh(z)
      [] function_name = "constructor" -> z

\* One iteration of the loop of #Feedforward throws a TypeError: indexing an
\* undefined weights or biases array, calling feedforward on undefined or on
\* a descriptor without one, computeForward throwing, or calling a registry
\* value that is not a function.
LayerStepThrows(this, current_input, i) ==
    \/ this.weights.t = "undefined"
    \/ this.biases.t = "undefined"
    \/ ~LayerAt(this, i).feedforward
    \/ ComputeForwardThrows(current_input, WeightsAt(this, i), BiasesAt(this, i))
    \/ /\ ~Callable(LayerAt(this, i).activation_function)
       /\ Len(BiasesAt(this, i).a) > 0

\* The feedforward closure of a Dense descriptor with an element-wise
\* activation: outputs[i] = f(z_values[i]) for i below biases.length.
feedforward(function_name, input, weights, biases) ==
    LET z_values == computeForward(input, weights, biases) IN
    [outputs |-> [i \in 1..Len(biases.a) |-> Activate(function_name, z_values[i])],
     z_values |-> z_values]

\* #Feedforward from layer i on: current_input threaded through the layers.
RECURSIVE FeedforwardFrom(_, _, _)
FeedforwardFrom(this, current_input, i) ==
    IF i > LoopCount(this.num_layers)
    THEN [threw |-> FALSE, predictions |-> current_input]
    ELSE IF LayerStepThrows(this, current_input, i)
    THEN [threw |-> TRUE, predictions |-> <<>>]
    ELSE FeedforwardFrom(this,
            feedforward(LayerAt(this, i).activation_function, current_input,
                        WeightsAt(this, i), BiasesAt(this, i)).outputs,
            i + 1)

Feedforward(this, input) == FeedforwardFrom(this, input, 1)

\* input[0].length != this.input_size, a loose comparison of a number with
\* the field: undefined and a non-numeric string never equal a number.
ShapeDiffers(length, input_size) ==
    ~(input_size.t = "number" /\ input_size.n = length)

\* The error predict catches, "" when it catches none.
PredictError(this, input) ==
    CASE input.t = "undefined" -> MsgNoInputs
      [] Len(input.a) = 0 -> MsgTypeError
      [] ShapeDiffers(Len(input.a[1]), this.input_size) -> MsgShape
      [] \E k \in DOMAIN input.a : Feedforward(this, input.a[k]).threw -> MsgTypeError
      [] OTHER -> ""

\* What predict(input) returns: the outputs, or undefined after a caught error.
predict(this, input) ==
    IF PredictError(this, input) # ""
    THEN [t |-> "undefined", a |-> <<>>]
    ELSE Arr([k \in DOMAIN input.a |-> Feedforward(this, input.a[k]).predictions])

\* What predict prints: the caught error's message, nothing on success.
PredictConsole(this, input) ==
    CASE PredictError(this, input) = "" -> <<>>
      [] PredictError(this, input) = MsgShape ->
            <<Line(MsgShape, Num(Len(input.a[1])))>>
      [] OTHER -> <<Line(PredictError(this, input), Undef)>>

\* The layers #Feedforward reaches for one sample, in order: it calls
\* current_layer.feedforward on each of them, and stops after the first one
\* on which the iteration throws.
RECURSIVE DispatchedFrom(_, _, _)
DispatchedFrom(this, current_input, i) ==
    IF i > LoopCount(this.num_layers) THEN <<>>
    ELSE IF LayerStepThrows(this, current_input, i)
    THEN IF this.weights.t = "undefined" \/ this.biases.t = "undefined"
         THEN <<>>
         ELSE <<LayerAt(this, i)>>
    ELSE <<LayerAt(this, i)>>
         \o DispatchedFrom(this,
                feedforward(LayerAt(this, i).activation_function, current_input,
                            WeightsAt(this, i), BiasesAt(this, i)).outputs,
                i + 1)

\* predict gets to the loop over the samples: it has an input, input[0]
\* exists and has the expected length.
ReachesFold(this, input) ==
    /\ input.t = "array"
    /\ Len(input.a) > 0
    /\ ~ShapeDiffers(Len(input.a[1]), this.input_size)

\* ------------------------------------------------------------ modelSummary

\* array.flat(Infinity).length for a list of weight matrices and for a list
\* of bias vectors: the number of scalar entries.
RECURSIVE SumLen(_, _)
SumLen(rows, i) == IF i > Len(rows) THEN 0 ELSE Len(rows[i]) + SumLen(rows, i + 1)

RECURSIVE FlatLengthWeights(_, _)
FlatLengthWeights(weights, i) ==
    IF i > Len(weights) THEN 0
    ELSE SumLen(weights[i], 1) + FlatLengthWeights(weights, i + 1)

\* A count that leaves the bias vectors out.
FlatLengthWithoutBiases(biases) == 0

FlatLengthBiases(biases) == SumLen(biases, 1)

\* activation[function_name].name: the name of the registry function;
\* Object for the inherited constructor, and undefined for a registry value
\* that is no function.
FunctionName(function_name) ==
    CASE function_name \in DerivativeKeys -> Str(function_name)
      [] function_name = "constructor" -> Str("Object")
      [] OTHER -> Undef

\* The callback of this.layers.forEach throws a TypeError: the layer is
\* undefined, or its activation value has no name to pad.
SummaryRowThrows(layer) ==
    \/ layer = UndefinedLayer
    \/ /\ layer.activation_function # ""
       /\ FunctionName(layer.activation_function).t = "undefined"

\* The row the callback prints for a layer: its name, its output shape and
\* the name of its activation.
SummaryRow(layer) ==
    [name |-> IF layer.layer_name = "connected_layer"
              THEN "Connected Layer" ELSE layer.layer_name,
     shape |-> layer.layer_size,
     activation |-> IF layer.activation_function = "" THEN Str("None")
                    ELSE FunctionName(layer.activation_function)]

\* The first layer on which the callback throws, 0 when there is none.
FirstSummaryThrow(layers) ==
    IF \E i \in DOMAIN layers : SummaryRowThrows(layers[i])
    THEN CHOOSE i \in DOMAIN layers :
            /\ SummaryRowThrows(layers[i])
            /\ \A j \in 1..(i - 1) : ~SummaryRowThrows(layers[j])
    ELSE 0

\* modelSummary has no try block: a TypeError leaves the method.  It throws
\* in the forEach callback, or at this.weights.flat / this.biases.flat when
\* the field is undefined.
SummaryThrows(this) ==
    \/ FirstSummaryThrow(this.layers) # 0
    \/ this.weights.t = "undefined"
    \/ this.biases.t = "undefined"

\* What modelSummary prints: the header with the input size and the number
\* of layers, one row per layer, and the footer with the number of layers
\* and the number of learnable parameters.  The footer, and the rows from
\* the throwing one on, are missing when it throws.
modelSummary(this) ==
    LET stop == FirstSummaryThrow(this.layers)
        shown == IF stop = 0 THEN Len(this.layers) ELSE stop - 1
    IN [input_size |-> this.input_size,
        number_of_layers |-> this.num_layers,
        rows |-> [i \in 1..shown |-> SummaryRow(this.layers[i])],
        footer |-> ~SummaryThrows(this),
        total_layers |-> IF SummaryThrows(this) THEN Undef ELSE this.num_layers,
        total_parameters |->
            IF SummaryThrows(this) THEN Undef
            ELSE Num(FlatLengthWeights(this.weights.a, 1)
                     + FlatLengthBiases(this.biases.a))]

\* No summary: what the variable holds when the last call printed none.
NoSummary ==
    [input_size |-> Undef, number_of_layers |-> Undef, rows |-> <<>>,
     footer |-> FALSE, total_layers |-> Undef, total_parameters |-> Undef]

\* ----------------------------------------------------------- sample inputs

\* Input vectors of a given length: all ones, or alternating signs.
InputVector(length, kind) ==
    [i \in 1..length |-> Num(IF kind = 1 THEN 1 ELSE IF i % 2 = 1 THEN -i ELSE i)]

InputVectors == {InputVector(l, k) : l \in 0..MaxSize, k \in 1..2}

\* The input batches of the two worked scenarios.
ScenarioBatches ==
    {Arr(<<<<Num(1), Num(2), Num(3)>>>>), Arr(<<<<Num(-5), Num(-5), Num(-5)>>>>)}

\* No batch, the empty batch, and batches whose first vector is v and whose
\* other vectors are w.
Batches ==
    {NoArr, Arr(<<>>)}
    \cup {Arr([i \in 1..k |-> IF i = 1 THEN v ELSE w]) :
            k \in 1..MaxBatch, v \in InputVectors, w \in InputVectors}
    \cup ScenarioBatches

\* ------------------------------------------------------------ state machine

VARIABLES
    this,       \* the fields of the one Runtime instance
    call,       \* the last call: its method and its arguments
    returned,   \* what the last call returned to its caller
    thrown,     \* the message of the error the last call threw to its caller
    console,    \* the lines the last call printed
    stages,     \* the stages of loadSavedModel the last call entered
    loaded,     \* the payload of the last call that printed the success line
    summary,    \* what the last call of modelSummary printed
    prior,      \* the first remembered predict call since the last load
    scaler,     \* the one MinMaxScaler instance and the outcome of its last call
    handler,    \* the one CsvDataHandler instance and the outcome of its last call
    split,      \* the last call of split_dataset and its outcome
    kernel      \* the last call of a kernel or of a layer's feedforward

vars == <<this, call, returned, thrown, console, stages, loaded, summary, prior,
          scaler, handler, split, kernel>>

\* The variables of the Runtime instance; the others belong to the other exports.
runtime == <<this, call, returned, thrown, console, stages, loaded, summary, prior>>

\* new MinMaxScaler(): both fields null.  The result of a call is rows,
\* values, or the pair of getMinMax.
NewScaler ==
    [min_vals |-> [t |-> "null", a |-> <<>>], max_vals |-> [t |-> "null", a |-> <<>>],
     op |-> "new",
     data |-> [dim |-> 1, rows |-> <<>>, values |-> <<>>],
     threw |-> "",
     result |-> [rows |-> <<>>, values |-> <<>>, min |-> <<>>, max |-> <<>>],
     fitted |-> FALSE]

\* new CsvDataHandler(): no column names.
NewHandler ==
    [columnNames |-> <<>>, op |-> "new", fields |-> <<>>, before |-> <<>>,
     given |-> FALSE, data |-> <<>>, threw |-> "", result |-> <<>>]

\* No call of split_dataset and none of a kernel yet.
NoSplit ==
    [op |-> "none", X |-> <<>>, Y |-> <<>>, num |-> 0, den |-> 1, threw |-> "",
     shuffledIndices |-> <<>>, X_train |-> <<>>, Y_train |-> <<>>,
     X_test |-> <<>>, Y_test |-> <<>>]

NoKernel ==
    [op |-> "none", fn |-> "", onGPU |-> FALSE, input |-> <<>>, weights |-> <<>>,
     biases |-> <<>>, logits |-> <<>>, threw |-> "", z |-> <<>>,
     outputs |-> [t |-> "undefined", a |-> <<>>, v |-> Undef],
     soft |-> [shifted |-> <<>>, exps |-> <<>>, sumExps |-> 0, out |-> <<>>]]

\* No remembered call.
NoPrior == [set |-> FALSE, input |-> NoArr, returned |-> NoArr, between |-> FALSE]

\* The remembered call after one more call: between records that a call of
\* modelSummary, or of predict with another input, came after it.
PriorAfter(other) ==
    IF prior.set /\ other THEN [prior EXCEPT !.between = TRUE] ELSE prior

\* The batches whose first call after a load is remembered: one all-ones
\* vector, and the scenarios' batches.
Remembered ==
    {Arr(<<InputVector(l, 1)>>) : l \in 1..MaxSize} \cup ScenarioBatches

NoCall == [op |-> "new", model |-> Undef, disk |-> NoFile, input |-> NoArr]

NoPayload == [t |-> "none", data |-> EmptyObject]

Init ==
    /\ this = Constructed
    /\ call = NoCall
    /\ returned = NoArr
    /\ thrown = ""
    /\ console = <<>>
    /\ stages = <<>>
    /\ loaded = NoPayload
    /\ summary = NoSummary
    /\ prior = NoPrior
    /\ scaler = NewScaler
    /\ handler = NewHandler
    /\ split = NoSplit
    /\ kernel = NoKernel

\* The caller is between two calls.
Idle == call.op \in {"new", "returned"}

\* rn.loadSavedModel(model), with `disk` what the file system holds at the
\* path.  The method has no return statement and catches every error.
LoadSavedModel(model, disk) ==
    /\ Idle
    /\ this' = LoadFields(this, model, disk)
    /\ call' = [op |-> "loadSavedModel", model |-> model, disk |-> disk, input |-> NoArr]
    /\ returned' = NoArr
    /\ thrown' = ""
    /\ console' = LoadConsole(model, disk)
    /\ stages' = SubSeq(StageNames, 1, LoadStop(model, disk))
    /\ loaded' = IF LoadStop(model, disk) = Len(StageNames)
                 THEN [t |-> "payload", data |-> disk.payload.data]
                 ELSE loaded
    /\ summary' = NoSummary
    /\ prior' = NoPrior
    /\ UNCHANGED <<scaler, handler, split, kernel>>

\* A predict that leaves its instance without layers to iterate over.
PredictConsuming(input) ==
    /\ Idle
    /\ call' = [op |-> "predict", model |-> Undef, disk |-> NoFile, input |-> input]
    /\ returned' = predict(this, input)
    /\ thrown' = ""
    /\ console' = PredictConsole(this, input)
    /\ stages' = <<>>
    /\ summary' = NoSummary
    /\ prior' = IF ~prior.set /\ input \in Remembered
                THEN [set |-> TRUE, input |-> input,
                      returned |-> predict(this, input), between |-> FALSE]
                ELSE PriorAfter(input # prior.input)
    /\ this' = [this EXCEPT !.num_layers = Num(0)]
    /\ UNCHANGED loaded
    /\ UNCHANGED <<scaler, handler, split, kernel>>

\* rn.predict(input).  The method catches every error and then returns
\* nothing.
Predict(input) ==
    /\ Idle
    /\ call' = [op |-> "predict", model |-> Undef, disk |-> NoFile, input |-> input]
    /\ returned' = predict(this, input)
    /\ thrown' = ""
    /\ console' = PredictConsole(this, input)
    /\ stages' = <<>>
    /\ summary' = NoSummary
    /\ prior' = IF ~prior.set /\ input \in Remembered
                THEN [set |-> TRUE, input |-> input,
                      returned |-> predict(this, input), between |-> FALSE]
                ELSE PriorAfter(input # prior.input)
    /\ UNCHANGED <<this, loaded>>
    /\ UNCHANGED <<scaler, handler, split, kernel>>

\* A modelSummary that sets the instance back to its constructor values.
ModelSummaryClearing ==
    /\ Idle
    /\ call' = [op |-> "modelSummary", model |-> Undef, disk |-> NoFile, input |-> NoArr]
    /\ returned' = NoArr
    /\ thrown' = IF SummaryThrows(this) THEN MsgTypeError ELSE ""
    /\ console' = <<>>
    /\ stages' = <<>>
    /\ summary' = modelSummary(this)
    /\ prior' = PriorAfter(TRUE)
    /\ this' = Constructed
    /\ UNCHANGED loaded
    /\ UNCHANGED <<scaler, handler, split, kernel>>

\* rn.modelSummary().  The method prints, returns nothing, and lets a
\* TypeError out to its caller.
ModelSummary ==
    /\ Idle
    /\ call' = [op |-> "modelSummary", model |-> Undef, disk |-> NoFile, input |-> NoArr]
    /\ returned' = NoArr
    /\ thrown' = IF SummaryThrows(this) THEN MsgTypeError ELSE ""
    /\ console' = <<>>
    /\ stages' = <<>>
    /\ summary' = modelSummary(this)
    /\ prior' = PriorAfter(TRUE)
    /\ UNCHANGED <<this, loaded>>
    /\ UNCHANGED <<scaler, handler, split, kernel>>

\* The caller has read the outcome of the call and goes on to its next
\* statement: what the last call returned and printed is no longer looked at.
Return ==
    /\ ~Idle
    /\ call' = [NoCall EXCEPT !.op = "returned"]
    /\ returned' = NoArr
    /\ thrown' = ""
    /\ console' = <<>>
    /\ stages' = <<>>
    /\ summary' = NoSummary
    /\ UNCHANGED <<this, loaded, prior>>
    /\ UNCHANGED <<scaler, handler, split, kernel>>

Load == \E c \in LoadCalls : LoadSavedModel(c[1], c[2])

Run == \E input \in Batches : Predict(input)

Next == Load \/ Run \/ ModelSummary \/ Return

Spec == Init /\ [][Next]_vars

\* ------------------------------------------------------------ MinMaxScaler

MaxRows == 2

MsgScalerEmpty == "Input data for scaler cannot be empty."

MsgNotFitted == "Scaler has not been fitted yet. Call fit() first."

\* A number that is a quotient of two integers, and NaN.
Quot(num, den) == [t |-> "number", num |-> num, den |-> den]

NotANumber == [t |-> "NaN", num |-> 0, den |-> 1]

Least(S) == CHOOSE x \in S : \A y \in S : x <= y

Greatest(S) == CHOOSE x \in S : \A y \in S : x >= y

\* fit(data) throws on an empty list, before any assignment: data.length === 0.
FitThrows(data) == (IF data.dim = 2 THEN Len(data.rows) ELSE Len(data.values)) = 0

\* this.min_vals and this.max_vals after a fit that did not throw.  The
\* callback of fit compares min_vals[i] and max_vals[i] with the i-th cells of
\* the rows that have one.
FitMin(data) ==
    IF data.dim = 2
    THEN [t |-> "array",
          a |-> [i \in 1..Len(data.rows[1]) |->
                    Least({data.rows[r][i] :
                            r \in {q \in DOMAIN data.rows : i <= Len(data.rows[q])}})]]
    ELSE [t |-> "array", a |-> <<Least({data.values[k] : k \in DOMAIN data.values})>>]

FitMax(data) ==
    IF data.dim = 2
    THEN [t |-> "array",
          a |-> [i \in 1..Len(data.rows[1]) |->
                    Greatest({data.rows[r][i] :
                            r \in {q \in DOMAIN data.rows : i <= Len(data.rows[q])}})]]
    ELSE [t |-> "array", a |-> <<Greatest({data.values[k] : k \in DOMAIN data.values})>>]

\* !this.min_vals || !this.max_vals: null is falsy, every array is truthy.
NotFitted(sc) == sc.min_vals.t = "null" \/ sc.max_vals.t = "null"

\* max - min === 0 ? 0 : (value - min) / (max - min), with min and max the
\* i-th fitted values; undefined past their end, which makes the result NaN.
Scale(sc, value, i) ==
    IF i > Len(sc.min_vals.a) THEN NotANumber
    ELSE IF sc.max_vals.a[i] - sc.min_vals.a[i] = 0 THEN Quot(0, 1)
    ELSE Quot(value - sc.min_vals.a[i], sc.max_vals.a[i] - sc.min_vals.a[i])

\* value * (max - min) + min
Unscale(sc, value, i) ==
    IF i > Len(sc.min_vals.a) THEN NotANumber
    ELSE Quot(value * (sc.max_vals.a[i] - sc.min_vals.a[i]) + sc.min_vals.a[i], 1)

transform(sc, data) ==
    IF data.dim = 2
    THEN [NewScaler.result EXCEPT !.rows =
            [r \in DOMAIN data.rows |->
                [i \in DOMAIN data.rows[r] |-> Scale(sc, data.rows[r][i], i)]]]
    ELSE [NewScaler.result EXCEPT !.values =
            [k \in DOMAIN data.values |-> Scale(sc, data.values[k], 1)]]

\* inverseTransform has no check of its own.  On a scaler that is not fitted
\* it throws a TypeError where it indexes null: in the 2D branch for the
\* first cell of a row, in the 1D branch before it looks at the data.
InverseThrows(sc, data) ==
    /\ NotFitted(sc)
    /\ \/ data.dim = 1
       \/ \E r \in DOMAIN data.rows : Len(data.rows[r]) > 0

inverseTransform(sc, data) ==
    IF data.dim = 2
    THEN [NewScaler.result EXCEPT !.rows =
            [r \in DOMAIN data.rows |->
                [i \in DOMAIN data.rows[r] |-> Unscale(sc, data.rows[r][i], i)]]]
    ELSE [NewScaler.result EXCEPT !.values =
            [k \in DOMAIN data.values |-> Unscale(sc, data.values[k], 1)]]

\* scaler.fit(data)
Fit(data) ==
    /\ scaler' = IF FitThrows(data)
                 THEN [scaler EXCEPT !.op = "fit", !.data = data,
                                     !.threw = MsgScalerEmpty, !.result = NewScaler.result]
                 ELSE [min_vals |-> FitMin(data), max_vals |-> FitMax(data),
                       op |-> "fit", data |-> data, threw |-> "", result |-> NewScaler.result,
                       fitted |-> TRUE]
    /\ UNCHANGED <<runtime, handler, split, kernel>>

\* scaler.transform(data)
Transform(data) ==
    /\ scaler' = [scaler EXCEPT
                    !.op = "transform", !.data = data,
                    !.threw = IF NotFitted(scaler) THEN MsgNotFitted ELSE "",
                    !.result = IF NotFitted(scaler) THEN NewScaler.result ELSE transform(scaler, data)]
    /\ UNCHANGED <<runtime, handler, split, kernel>>

\* scaler.inverseTransform(data)
InverseTransform(data) ==
    /\ scaler' = [scaler EXCEPT
                    !.op = "inverseTransform", !.data = data,
                    !.threw = IF InverseThrows(scaler, data) THEN MsgTypeError ELSE "",
                    !.result = IF InverseThrows(scaler, data) THEN NewScaler.result
                               ELSE inverseTransform(scaler, data)]
    /\ UNCHANGED <<runtime, handler, split, kernel>>

\* scaler.getMinMax()
GetMinMax ==
    /\ scaler' = [scaler EXCEPT
                    !.op = "getMinMax", !.data = NewScaler.data,
                    !.threw = IF NotFitted(scaler) THEN MsgNotFitted ELSE "",
                    !.result = IF NotFitted(scaler) THEN NewScaler.result
                               ELSE [NewScaler.result EXCEPT !.min = scaler.min_vals.a,
                                                     !.max = scaler.max_vals.a]]
    /\ UNCHANGED <<runtime, handler, split, kernel>>

\* Data given to the scaler: a list of rows (dim 2) or a list of numbers
\* (dim 1).  Array.isArray(data[0]) is false for the empty list.
NextScaler ==
    \/ \E data \in
            {[dim |-> IF r = 0 THEN 1 ELSE 2, values |-> <<>>,
              rows |-> [i \in 1..r |-> [j \in 1..c |-> ((i * k + j) % 3) - k + 1]]] :
                r \in 0..MaxRows, c \in 0..MaxSize, k \in 1..2}
            \cup {[dim |-> 1, rows |-> <<>>,
                   values |-> [j \in 1..c |-> ((k + j) % 3) - k + 1]] :
                c \in 1..MaxSize, k \in 1..2} :
        \/ Fit(data)
        \/ Transform(data)
        \/ InverseTransform(data)
    \/ GetMinMax

SpecScaler == Init /\ [][NextScaler]_vars

\* ---------------------------------------------------------- CsvDataHandler

MaxFields == 2

MsgInvalidFields == "[ERROR]------- Invalid fields or data."

MsgColumnNotFound == "[ERROR]------- Column not found."

\* array.indexOf(x): the first position of x, here from 1, 0 when absent.
IndexOf(names, x) ==
    IF \E i \in DOMAIN names : names[i] = x
    THEN CHOOSE i \in DOMAIN names : names[i] = x /\ \A j \in 1..(i - 1) : names[j] # x
    ELSE 0

\* indices.sort((a, b) => b - a)
RECURSIVE InsertDescending(_, _)
InsertDescending(sorted, x) ==
    IF sorted = <<>> THEN <<x>>
    ELSE IF x >= sorted[1] THEN <<x>> \o sorted
    ELSE <<sorted[1]>> \o InsertDescending(Tail(sorted), x)

RECURSIVE SortDescending(_)
SortDescending(indices) ==
    IF indices = <<>> THEN <<>>
    ELSE InsertDescending(SortDescending(Tail(indices)), indices[1])

\* The indices of the named columns, sorted descending.
IndicesToRemove(names, fields) ==
    SortDescending([k \in DOMAIN fields |-> IndexOf(names, fields[k])])

\* for (const index of indicesToRemove) array.splice(index, 1): each splice
\* removes the element at index, nothing past the end.
RECURSIVE SpliceAll(_, _)
SpliceAll(array, indices) ==
    IF indices = <<>> THEN array
    ELSE IF indices[1] \in DOMAIN array
    THEN SpliceAll(SubSeq(array, 1, indices[1] - 1)
                        \o SubSeq(array, indices[1] + 1, Len(array)),
                   Tail(indices))
    ELSE SpliceAll(array, Tail(indices))

\* The error removeColumns throws, "" when it throws none.
RemoveColumnsError(names, fields, data) ==
    IF Len(fields) = 0 \/ data.t = "undefined" THEN MsgInvalidFields
    ELSE IF \E k \in DOMAIN fields : IndexOf(names, fields[k]) = 0 THEN MsgColumnNotFound
    ELSE ""

\* What removeColumns returns when it does not throw.
removeColumns(names, fields, data) ==
    [r \in DOMAIN data.rows |-> SpliceAll(data.rows[r], IndicesToRemove(names, fields))]

\* loader.columnNames = names, or read_csv of a file with that header.
SetColumnNames(names) ==
    /\ handler' = [NewHandler EXCEPT !.columnNames = names, !.op = "columnNames",
                                     !.before = handler.columnNames]
    /\ UNCHANGED <<runtime, scaler, split, kernel>>

\* loader.removeColumns(fields, data)
RemoveColumns(fields, data) ==
    /\ handler' =
        [columnNames |-> IF RemoveColumnsError(handler.columnNames, fields, data) # ""
                         THEN handler.columnNames
                         ELSE SpliceAll(handler.columnNames,
                                        IndicesToRemove(handler.columnNames, fields)),
         op |-> "removeColumns",
         fields |-> fields,
         before |-> handler.columnNames,
         given |-> data.t = "array",
         data |-> data.rows,
         threw |-> RemoveColumnsError(handler.columnNames, fields, data),
         result |-> IF RemoveColumnsError(handler.columnNames, fields, data) # ""
                    THEN <<>>
                    ELSE removeColumns(handler.columnNames, fields, data)]
    /\ UNCHANGED <<runtime, scaler, split, kernel>>

\* The headers a handler is given, and the lists of names and the datasets a
\* caller passes: names may repeat, Z is the name of no column, a cell shows
\* the column and the row it came from, and the data argument may be left
\* out.
NextHandler ==
    \/ \E names \in {<<>>, <<"A">>, <<"A", "B">>, <<"C", "A">>,
                      <<"A", "B", "C">>, <<"C", "B", "A">>} :
            SetColumnNames(names)
    \/ \E fields \in UNION {[1..n -> {"A", "B", "C", "Z"}] : n \in 0..MaxFields},
          data \in {[t |-> "array",
                     rows |-> [r \in 1..rows |->
                                [c \in DOMAIN handler.columnNames |->
                                    [col |-> handler.columnNames[c], row |-> r]]]] :
                        rows \in 0..MaxRows}
                    \cup {[t |-> "undefined", rows |-> <<>>]} :
            RemoveColumns(fields, data)

SpecHandler == Init /\ [][NextHandler]_vars

\* ----------------------------------------------------------- split_dataset

MaxSamples == 3

MaxDen == 3

MsgSamples == "X and Y must have the same number of samples."

\* The orders the sort with a random comparator can leave the indices in:
\* every permutation.
Shuffles(n) == {p \in [1..n -> 1..n] : \A i, j \in 1..n : p[i] = p[j] => i = j}

\* A test size rounded up.
TestSizeCeiling(n, num, den) == (n * num + den - 1) \div den

\* Math.floor(X.length * split_ratio)
TestSize(n, num, den) == (n * num) \div den

\* The elements the loop pushes for positions from..to of the shuffled indices.
Pushed(array, shuffledIndices, from, to) ==
    [i \in 1..(to - from + 1) |-> array[shuffledIndices[from + i - 1]]]

\* split_dataset(X, Y, split_ratio), with the order the shuffle produced.
SplitDataset(X, Y, num, den, shuffledIndices) ==
    /\ split.op = "none"
    /\ split' =
        IF Len(X) # Len(Y)
        THEN [NoSplit EXCEPT !.op = "split_dataset", !.X = X, !.Y = Y,
                             !.num = num, !.den = den, !.threw = MsgSamples]
        ELSE [op |-> "split_dataset", X |-> X, Y |-> Y, num |-> num, den |-> den,
              threw |-> "",
              shuffledIndices |-> shuffledIndices,
              X_test |-> Pushed(X, shuffledIndices, 1, TestSize(Len(X), num, den)),
              Y_test |-> Pushed(Y, shuffledIndices, 1, TestSize(Len(X), num, den)),
              X_train |-> Pushed(X, shuffledIndices, TestSize(Len(X), num, den) + 1, Len(X)),
              Y_train |-> Pushed(Y, shuffledIndices, TestSize(Len(X), num, den) + 1, Len(X))]
    /\ UNCHANGED <<runtime, scaler, handler, kernel>>

\* The caller has taken the four sets and goes on to its next statement.
SplitReturn ==
    /\ split.op # "none"
    /\ split' = NoSplit
    /\ UNCHANGED <<runtime, scaler, handler, kernel>>

\* Every call a caller can make between two statements: samples and labels
\* whose values may repeat, and split_ratio as a quotient num/den from 0 to 1.
NextSplit ==
    \/ /\ split.op = "none"
       /\ \E X \in UNION {[1..n -> {1, 2}] : n \in 0..MaxSamples},
             Y \in UNION {[1..n -> {7, 8}] : n \in 0..MaxSamples},
             r \in {q \in (0..MaxDen) \X (1..MaxDen) : q[1] <= q[2]} :
                \E p \in Shuffles(Len(X)) : SplitDataset(X, Y, r[1], r[2], p)
    \/ SplitReturn

SpecSplit == Init /\ [][NextSplit]_vars

\* ------------------------------------------------- kernels and Dense layers

LogitMax == 2

\* Math.exp(d) for a whole d, in thousandths, from e^-6 on.
ExpTable ==
    <<2, 7, 18, 50, 135, 368, 1000, 2718, 7389, 20086, 54598, 148413, 403429>>

Exp(d) == ExpTable[d + (Len(ExpTable) + 1) \div 2]

RECURSIVE SumOf(_)
SumOf(values) == IF values = <<>> THEN 0 ELSE values[1] + SumOf(Tail(values))

\* What softmax computes on the way: the arguments of Math.exp, the
\* exponentials, their sum, and the quotients it returns.
Softmaxed(shifted) ==
    LET exps == [i \in DOMAIN shifted |-> Exp(shifted[i])] IN
    [shifted |-> shifted, exps |-> exps, sumExps |-> SumOf(exps),
     out |-> [i \in DOMAIN shifted |-> Quot(exps[i], SumOf(exps))]]

\* A softmax that exponentiates the logits as they are.
softmaxUnshifted(logits) == Softmaxed(logits)

\* softmax(logits) of whole logits: x - maxLogit goes to Math.exp.
softmax(logits) ==
    IF logits = <<>> THEN Softmaxed(<<>>)
    ELSE Softmaxed([i \in DOMAIN logits |-> logits[i] - Greatest({logits[k] : k \in DOMAIN logits})])

\* An array where a number is expected: [] is 0, [x] is x, a longer one NaN.
ArrayToNumber(z) ==
    IF Len(z) = 0 THEN Num(0) ELSE IF Len(z) = 1 THEN z[1] ELSE NaN

\* The outputs of the closure for an element-wise activation: an array, or
\* the one number a scalar activation makes of the whole array.  Without onGPU
\* the loop applies it to z_values[i] for i below biases.length; with onGPU
\* the function is called once on the array.
ElementwiseOutputs(function_name, onGPU, z_values, biases) ==
    IF ~onGPU
    THEN [t |-> "array", v |-> Undef,
          a |-> [i \in 1..Len(biases.a) |-> Activate(function_name, z_values[i])]]
    ELSE IF function_name \in {"linear", "constructor"}
    THEN [t |-> "array", v |-> Undef, a |-> z_values]
    ELSE [t |-> "number", v |-> Activate(function_name, ArrayToNumber(z_values)),
          a |-> <<>>]

\* The outputs for softmax, the whole vector at once.  With a NaN in the
\* vector Math.max is NaN and so is every quotient.
SoftmaxOutputs(z_values) ==
    IF \A i \in DOMAIN z_values : z_values[i].t = "number"
    THEN softmax([i \in DOMAIN z_values |-> z_values[i].n])
    ELSE [shifted |-> <<>>, exps |-> <<>>, sumExps |-> 0,
          out |-> [i \in DOMAIN z_values |-> NotANumber]]

\* computeForward(input, weights, biases), called on its own.
ComputeForward(input, weights, biases) ==
    /\ kernel.op = "none"
    /\ kernel' =
        [NoKernel EXCEPT
            !.op = "computeForward", !.input = input, !.weights = weights.a,
            !.biases = biases.a,
            !.threw = IF ComputeForwardThrows(input, weights, biases)
                      THEN MsgTypeError ELSE "",
            !.z = IF ComputeForwardThrows(input, weights, biases)
                  THEN <<>> ELSE computeForward(input, weights, biases)]
    /\ UNCHANGED <<runtime, scaler, handler, split>>

\* layers.connectedLayer(name, n).feedforward(input, weights, biases), with
\* onGPU the field of the Layers instance that built the layer.
LayerFeedforward(function_name, onGPU, input, weights, biases) ==
    /\ kernel.op = "none"
    /\ kernel' =
        IF ComputeForwardThrows(input, weights, biases)
        THEN [NoKernel EXCEPT
                !.op = "feedforward", !.fn = function_name, !.onGPU = onGPU,
                !.input = input, !.weights = weights.a, !.biases = biases.a,
                !.threw = MsgTypeError]
        ELSE [NoKernel EXCEPT
                !.op = "feedforward", !.fn = function_name, !.onGPU = onGPU,
                !.input = input, !.weights = weights.a, !.biases = biases.a,
                !.z = computeForward(input, weights, biases),
                !.outputs =
                    IF function_name = "softmax"
                    THEN [t |-> "array", a |-> <<>>, v |-> Undef]
                    ELSE ElementwiseOutputs(function_name, onGPU,
                            computeForward(input, weights, biases), biases),
                !.soft =
                    IF function_name = "softmax"
                    THEN SoftmaxOutputs(computeForward(input, weights, biases))
                    ELSE NoKernel.soft]
    /\ UNCHANGED <<runtime, scaler, handler, split>>

\* softmax(logits), called on its own.
Softmax(logits) ==
    /\ kernel.op = "none"
    /\ kernel' = [NoKernel EXCEPT !.op = "softmax", !.logits = logits,
                                  !.soft = softmax(logits)]
    /\ UNCHANGED <<runtime, scaler, handler, split>>

\* The caller has taken the result and goes on to its next statement.
KernelReturn ==
    /\ kernel.op # "none"
    /\ kernel' = NoKernel
    /\ UNCHANGED <<runtime, scaler, handler, split>>

\* The vectors, matrices and bias vectors the kernel is called with: every
\* combination of lengths up to MaxSize, and the zero vectors.
NextKernel ==
    \/ \E input \in InputVectors \cup {[i \in 1..l |-> Num(0)] : l \in 0..MaxSize},
          weights \in {Arr(SampleWeights(r, c)) : r \in 0..MaxSize, c \in 0..MaxSize},
          biases \in {Arr(SampleBiases(n)) : n \in 0..MaxSize} :
            \/ ComputeForward(input, weights, biases)
            \/ \E function_name \in DerivativeKeys, onGPU \in BOOLEAN :
                    LayerFeedforward(function_name, onGPU, input, weights, biases)
    \/ \E logits \in UNION {[1..n -> -LogitMax..LogitMax] : n \in 0..MaxSize} :
            Softmax(logits)
    \/ KernelReturn

SpecKernel == Init /\ [][NextKernel]_vars

\* -------------------------------------------------------------- properties

\* The last call was loadSavedModel, on a file the call got to read.
LoadCalled == call.op = "loadSavedModel"

FileRead ==
    /\ LoadCalled
    /\ call.model = Str("model.nrx")
    /\ call.disk.t = "file"

\* The call printed the success line, or stopped at an earlier stage.
LoadSucceeded == LoadCalled /\ stages[Len(stages)] = "success"

LoadFailed == LoadCalled /\ stages[Len(stages)] # "success"

PredictCalled == call.op = "predict"

\* predict printed an error instead of computing outputs.
PredictFailed == PredictCalled /\ console # <<>>

\* The last line the call printed.
LastLine == console[Len(console)]

\* The error kind of the specification that a printed message stands for.
ErrorKind(line) ==
    CASE line.msg = MsgIo -> "IoError"
      [] line.msg = MsgFormat -> "InvalidFormat"
      [] line.msg = MsgVersion -> "UnsupportedVersion"
      [] line.msg = MsgInflate -> "CorruptPayload"
      [] line.msg = MsgJson -> "MalformedMetadata"
      [] line.msg = MsgLayerType -> "UnknownLayerType"
      [] line.msg = "[ERROR]------- Activation function or its derivative not found or invalid,"
            -> "UnknownActivation"
      [] line.msg = MsgShape -> "ShapeMismatch"
      [] line.msg = MsgNoInputs -> "EmptyInput"
      [] OTHER -> "none"

\* The bytes of the file the last call read, and its decoded object.
FileHead == call.disk.head

Decoded == call.disk.payload.data

\* The call decoded a JSON object from a file with a good header.
ObjectDecoded ==
    /\ FileRead
    /\ FileHead = GoodHead
    /\ call.disk.payload.kind = "object"

\* C1: a loadSavedModel call that fails at any stage leaves every field of
\* the Runtime with the value it had before the call.
C1_FailedLoadKeepsFields ==
    [][LoadFailed' => this' = this]_vars

\* The fields of the Runtime are those one container gives.
FromContainer(d) ==
    /\ this.task = d.task
    /\ this.loss_function = d.loss_function
    /\ this.epoch_count = d.epoch
    /\ this.batch_size = d.batch_size
    /\ this.optimizer = d.optimizer
    /\ this.learning_rate = d.learning_rate
    /\ this.input_size = d.input_size
    /\ this.output_size = d.output_size
    /\ this.num_layers = d.num_layers
    /\ this.weights = d.weights
    /\ this.biases = d.biases
    /\ d.layers.t = "array"
    /\ Len(this.layers) = Len(d.layers.a)
    /\ \A i \in DOMAIN this.layers : this.layers[i] = NewLayer(d.layers.a[i])

\* C2: in every reachable state the fields are all at their constructor
\* values, or all taken from the container of the most recent successful load.
C2_NoMixedState ==
    IF loaded.t = "none" THEN this = Constructed ELSE FromContainer(loaded.data)

\* C3: every failing loadSavedModel or predict call delivers an error to its
\* caller, thrown or returned; none is only printed.
C3_FailuresReachCaller ==
    (LoadFailed \/ PredictFailed) => (thrown # "" \/ returned.t = "error")

\* The first four bytes of the file are exactly 'N' 'R' 'X' '2'.
MagicPresent == Len(FileHead) >= 4 /\ \A i \in 1..4 : FileHead[i] = MagicBytes[i]

\* C4: a file whose first four bytes are not 'NRX2' (a shorter file included)
\* fails with InvalidFormat, and the call stops at the magic check: nothing is
\* inflated or parsed.
C4_BadMagicIsInvalidFormat ==
    (FileRead /\ ~MagicPresent) =>
        /\ console = <<Line(MsgFormat, Undef)>>
        /\ ErrorKind(LastLine) = "InvalidFormat"
        /\ stages = SubSeq(StageNames, 1, 4)
        /\ \A i \in DOMAIN stages : stages[i] \notin {"inflate", "parse", "assign", "layers"}

\* A file whose magic differs from 'NRX2' in its last byte only was rejected.
C4_Witness ==
    /\ FileRead
    /\ Len(FileHead) = 5
    /\ SubSeq(FileHead, 1, 3) = SubSeq(MagicBytes, 1, 3)
    /\ FileHead[4] # MagicBytes[4]
    /\ ErrorKind(LastLine) = "InvalidFormat"

\* The version byte of the file the call read is absent or is not 2.
VersionOffending == Len(FileHead) < 5 \/ FileHead[5] # 2

\* C5: a file with the right magic whose version byte is not 2, or is absent,
\* fails with UnsupportedVersion carrying the offending value, and the fields
\* of the Runtime are not replaced.
C5_BadVersionIsUnsupported ==
    [][(FileRead /\ MagicPresent /\ VersionOffending)' =>
        /\ console' = <<Line(MsgVersion, IF Len(FileHead') >= 5 THEN Num(FileHead'[5]) ELSE Undef)>>
        /\ ErrorKind(LastLine') = "UnsupportedVersion"
        /\ this' = this
        /\ loaded' = loaded]_vars

\* A file with the right magic and version byte 1 was rejected.
C5_Witness ==
    /\ FileRead
    /\ MagicPresent
    /\ Len(FileHead) = 5
    /\ FileHead[5] = 1
    /\ console = <<Line(MsgVersion, Num(1))>>

\* Every required key of the decoded object is present with its type.
RequiredKeysOk(d) ==
    /\ d.task.t = "string"
    /\ d.loss_function.t = "string"
    /\ d.epoch.t = "number"
    /\ d.batch_size.t = "number"
    /\ d.optimizer.t = "string"
    /\ d.learning_rate.t = "number"
    /\ d.input_size.t = "number"
    /\ d.output_size.t = "number"
    /\ d.num_layers.t = "number"
    /\ d.weights.t = "array"
    /\ d.biases.t = "array"
    /\ d.layers.t = "array"

\* C6: a decoded payload with a required key missing or of the wrong type
\* fails with MalformedMetadata, and no model becomes loaded.
C6_MissingKeyIsMalformed ==
    (ObjectDecoded /\ ~RequiredKeysOk(Decoded)) =>
        /\ LoadFailed
        /\ ErrorKind(LastLine) = "MalformedMetadata"

KnownTags == {"connected_layer", "input_layer", "flatten_layer"}

\* The names the activation registry has to resolve, in lower case.
RegisteredNames == {"relu", "sigmoid", "tanh", "linear", "softmax"}

\* An entry of layers that names a registered activation and a positive size
\* where its tag needs them.
EntryWellFormed(e) ==
    CASE e.layer_name = "connected_layer" ->
            /\ e.activation_function_name.t = "string"
            /\ ToLowerCase(e.activation_function_name.s) \in RegisteredNames
            /\ e.layer_size.t = "number"
            /\ e.layer_size.n > 0
      [] e.layer_name = "input_layer" ->
            e.layer_size.t = "number" /\ e.layer_size.n > 0
      [] OTHER -> TRUE

\* C7: a layers entry with an unknown tag fails the load with
\* UnknownLayerType carrying the tag; and entries with the three known tags
\* are reconstructed into descriptors without error.
C7_LayerTagsDispatch ==
    (ObjectDecoded /\ Decoded.layers.t = "array") =>
        /\ (\E i \in DOMAIN Decoded.layers.a : Decoded.layers.a[i].layer_name \notin KnownTags)
            => /\ LoadFailed
               /\ ErrorKind(LastLine) = "UnknownLayerType"
               /\ \E i \in DOMAIN Decoded.layers.a :
                    /\ Decoded.layers.a[i].layer_name \notin KnownTags
                    /\ LastLine.value = Str(Decoded.layers.a[i].layer_name)
        /\ (\A i \in DOMAIN Decoded.layers.a :
                /\ Decoded.layers.a[i].layer_name \in KnownTags
                /\ EntryWellFormed(Decoded.layers.a[i]))
            => /\ LoadSucceeded
               /\ Len(this.layers) = Len(Decoded.layers.a)
               /\ \A i \in DOMAIN this.layers : this.layers[i] # UndefinedLayer

\* A connected_layer entry whose activation name does not resolve.
UnresolvedEntry(e) ==
    /\ e.layer_name = "connected_layer"
    /\ e.layer_size.t = "number"
    /\ e.layer_size.n > 0
    /\ \/ e.activation_function_name.t # "string"
       \/ ToLowerCase(e.activation_function_name.s) \notin RegisteredNames

\* A connected_layer entry whose size is missing or not positive.
UnsizedEntry(e) ==
    /\ e.layer_name = "connected_layer"
    /\ ~(e.layer_size.t = "number" /\ e.layer_size.n > 0)

\* C8: a connected_layer entry with an unresolvable activation name fails the
\* load with UnknownActivation, one with a missing or non-positive size fails
\* the load; after a successful load every layer is a defined descriptor and
\* every Dense layer has a registered activation.
C8_ActivationsResolveAtLoad ==
    /\ (ObjectDecoded /\ Decoded.layers.t = "array") =>
        /\ (\E i \in DOMAIN Decoded.layers.a : UnresolvedEntry(Decoded.layers.a[i]))
            => (LoadFailed /\ ErrorKind(LastLine) = "UnknownActivation")
        /\ (\E i \in DOMAIN Decoded.layers.a : UnsizedEntry(Decoded.layers.a[i]))
            => LoadFailed
    /\ LoadSucceeded =>
        \A i \in DOMAIN this.layers :
            /\ this.layers[i] # UndefinedLayer
            /\ this.layers[i].layer_name = "connected_layer"
                => this.layers[i].activation_function \in RegisteredNames

\* C9: after a successful load the layer sequence, the weights and the biases
\* have one length, the number of layers the forward pass iterates over.
C9_LengthsAgreeAfterLoad ==
    LoadSucceeded =>
        /\ this.weights.t = "array"
        /\ this.biases.t = "array"
        /\ this.num_layers.t = "number"
        /\ Len(this.layers) = Len(this.weights.a)
        /\ Len(this.weights.a) = Len(this.biases.a)
        /\ Len(this.layers) = this.num_layers.n

\* The lengths C9 speaks of agree, so that the shapes can be compared.
LengthsAgree ==
    /\ RequiredKeysOk(Decoded)
    /\ Len(this.layers) = Len(this.weights.a)
    /\ Len(this.weights.a) = Len(this.biases.a)
    /\ Len(this.layers) = this.num_layers.n
    /\ \A i \in DOMAIN this.layers : this.layers[i].layer_size.t = "number"

\* The width of the output of layer i, the input size for i = 0.
OutputWidth(i) == IF i = 0 THEN this.input_size.n ELSE this.layers[i].layer_size.n

\* C10: after a successful load, weights[i] has as many rows as layer i-1 has
\* outputs (input_size for the first), as many columns as biases[i] has
\* entries and layer i has neurons, and the last width is output_size.
C10_ShapesAgreeAfterLoad ==
    (LoadSucceeded /\ LengthsAgree) =>
        /\ \A i \in DOMAIN this.layers :
            /\ Len(this.weights.a[i]) = OutputWidth(i - 1)
            /\ \A r \in DOMAIN this.weights.a[i] :
                    Len(this.weights.a[i][r]) = Len(this.biases.a[i])
            /\ Len(this.biases.a[i]) = this.layers[i].layer_size.n
        /\ Len(this.layers) > 0 => OutputWidth(Len(this.layers)) = this.output_size.n

\* Some load succeeded, and the fields are those of its container.
HoldsLoadedContainer == loaded.t = "payload" /\ FromContainer(loaded.data)

\* The instance holds a sample container that satisfies the data model.
HoldsValidModel == HoldsLoadedContainer /\ loaded.data \in ValidPayloads

\* C11: for every successfully loaded container and every predict call, the
\* forward pass calls feedforward on Dense descriptors only: no Input or
\* Flatten descriptor is at an index the loop over the layers reaches.
C11_FoldDispatchesOnlyDense ==
    (PredictCalled /\ HoldsLoadedContainer /\ ReachesFold(this, call.input)) =>
        \A k \in DOMAIN call.input.a :
            \A i \in DOMAIN DispatchedFrom(this, call.input.a[k], 1) :
                DispatchedFrom(this, call.input.a[k], 1)[i].layer_name
                    \notin {"input_layer", "flatten_layer"}

\* A batch of at least one vector, each of length input_size.
ValidBatch(input) ==
    /\ input.t = "array"
    /\ Len(input.a) >= 1
    /\ \A k \in DOMAIN input.a : ~ShapeDiffers(Len(input.a[k]), this.input_size)

\* C12: for every loaded model and every valid batch of k vectors, predict
\* returns exactly k vectors, the i-th computed from the i-th input, each of
\* length output_size.
C12_OneOutputPerSample ==
    (PredictCalled /\ HoldsLoadedContainer /\ ValidBatch(call.input)) =>
        /\ returned.t = "array"
        /\ Len(returned.a) = Len(call.input.a)
        /\ \A k \in DOMAIN returned.a :
            /\ returned.a[k] = Feedforward(this, call.input.a[k]).predictions
            /\ this.output_size.t = "number"
            /\ Len(returned.a[k]) = this.output_size.n

\* C13: for every loaded model and every non-empty batch in which some
\* vector, at any position, has a length other than input_size, predict fails
\* with ShapeMismatch and computes no output for any sample.
C13_AnyVectorShapeMismatch ==
    (/\ PredictCalled
     /\ HoldsValidModel
     /\ call.input.t = "array"
     /\ \E k \in DOMAIN call.input.a :
            ShapeDiffers(Len(call.input.a[k]), this.input_size)) =>
        /\ PredictFailed
        /\ ErrorKind(LastLine) = "ShapeMismatch"
        /\ returned.t = "undefined"

\* C14: for every loaded model, predict called with an empty batch or with
\* no batch at all fails with EmptyInput.
C14_EmptyBatchIsEmptyInput ==
    (/\ PredictCalled
     /\ HoldsValidModel
     /\ (call.input.t = "undefined" \/ Len(call.input.a) = 0)) =>
        /\ PredictFailed
        /\ ErrorKind(LastLine) = "EmptyInput"

\* C15: on a Runtime on which no load has ever succeeded, every predict call,
\* for every batch, fails and returns no predictions.
C15_PredictNeedsLoadedModel ==
    (PredictCalled /\ loaded.t = "none") =>
        /\ PredictFailed
        /\ returned.t = "undefined"

SummaryCalled == call.op = "modelSummary"

\* C16: on a Runtime on which no load has ever succeeded, modelSummary fails
\* instead of reporting a summary.
C16_SummaryNeedsLoadedModel ==
    (SummaryCalled /\ loaded.t = "none") =>
        /\ thrown # ""
        /\ summary = NoSummary

\* The parameter-bearing entries of a payload's layers.
DenseEntries(d) == {i \in DOMAIN d.layers.a : d.layers.a[i].layer_name = "connected_layer"}

\* A payload with every required key, well-formed entries with known tags,
\* and one weight matrix and one bias vector per parameter-bearing layer.
ValidContainer(d) ==
    /\ RequiredKeysOk(d)
    /\ \A i \in DOMAIN d.layers.a :
            /\ d.layers.a[i].layer_name \in {"connected_layer", "input_layer"}
            /\ EntryWellFormed(d.layers.a[i])
    /\ d.num_layers.n = Cardinality(DenseEntries(d))
    /\ Len(d.weights.a) = d.num_layers.n
    /\ Len(d.biases.a) = d.num_layers.n

\* The positions of the scalar entries of the weight matrices and of the
\* bias vectors of a payload.
WeightPositions(d) ==
    UNION {UNION {{<<l, r, c>> : c \in DOMAIN d.weights.a[l][r]} :
                    r \in DOMAIN d.weights.a[l]} : l \in DOMAIN d.weights.a}

BiasPositions(d) ==
    UNION {{<<l, c>> : c \in DOMAIN d.biases.a[l]} : l \in DOMAIN d.biases.a}

\* C17: for every valid container, modelSummary after its load reports the
\* payload's input_size as the input size, the number of parameter-bearing
\* layers of the payload as the layer count, and the number of scalar entries
\* of all weight matrices and bias vectors as the learnable parameter count.
C17_SummaryReportsModel ==
    (SummaryCalled /\ HoldsLoadedContainer /\ ValidContainer(loaded.data)) =>
        /\ thrown = ""
        /\ summary.footer
        /\ summary.input_size = loaded.data.input_size
        /\ summary.number_of_layers = Num(Cardinality(DenseEntries(loaded.data)))
        /\ summary.total_layers = Num(Cardinality(DenseEntries(loaded.data)))
        /\ summary.total_parameters =
                Num(Cardinality(WeightPositions(loaded.data))
                    + Cardinality(BiasPositions(loaded.data)))

\* modelSummary reported a loaded two-layer model with input layer or
\* without: more parameters than layers, and biases among them.
C17_Witness ==
    /\ SummaryCalled
    /\ HoldsLoadedContainer
    /\ ValidContainer(loaded.data)
    /\ summary.number_of_layers.n > 1
    /\ Cardinality(BiasPositions(loaded.data)) > 0
    /\ summary.total_parameters.n > Cardinality(WeightPositions(loaded.data))

\* An entry that calls connectedLayer with a non-empty name and a positive size.
NamedSizedEntry(e) ==
    /\ e.layer_name = "connected_layer"
    /\ e.activation_function_name.t = "string"
    /\ e.activation_function_name.s # ""
    /\ e.layer_size.t = "number"
    /\ e.layer_size.n > 0

\* C18: connectedLayer(name, size) with a positive size yields a Dense layer
\* exactly when the lower-cased name is relu, sigmoid, tanh, linear or
\* softmax; every other non-empty name yields no layer.
C18_OnlyRegisteredNamesBuild ==
    (LoadCalled /\ "layers" \in {stages[i] : i \in DOMAIN stages}) =>
        \A i \in DOMAIN Decoded.layers.a :
            NamedSizedEntry(Decoded.layers.a[i]) =>
                ((connectedLayer(Decoded.layers.a[i].activation_function_name,
                                 Decoded.layers.a[i].layer_size) # UndefinedLayer)
                 <=> ToLowerCase(Decoded.layers.a[i].activation_function_name.s)
                        \in RegisteredNames)

\* The instance holds one Dense relu layer: an m x n weight matrix with
\* m = input_size >= 1 rows and one bias per column.
OneReluLayer ==
    /\ this.num_layers = Num(1)
    /\ Len(this.layers) = 1
    /\ this.layers[1].layer_name = "connected_layer"
    /\ this.layers[1].activation_function = "relu"
    /\ this.weights.t = "array"
    /\ Len(this.weights.a) = 1
    /\ this.biases.t = "array"
    /\ Len(this.biases.a) = 1
    /\ this.input_size = Num(Len(this.weights.a[1]))
    /\ Len(this.weights.a[1]) >= 1
    /\ \A r \in DOMAIN this.weights.a[1] :
            Len(this.weights.a[1][r]) = Len(this.biases.a[1])

\* x[1]*W[1][j] + ... + x[m]*W[m][j]
RECURSIVE ColumnSum(_, _, _, _)
ColumnSum(x, W, j, m) ==
    IF m = 0 THEN 0 ELSE ColumnSum(x, W, j, m - 1) + x[m].n * W[m][j]

Max0(v) == IF v >= 0 THEN v ELSE 0

\* The batch of the one vector x.
One(x) == Arr(<<x>>)

\* C19: for a loaded model of one Dense relu layer with integer weights W
\* (m x n) and biases b, and an integer vector x of length m, predict([x]) is
\* [[max(0, b[j] + sum_i x[i]*W[i][j]) for each j]]; with weights
\* [[1,0],[0,1],[1,1]], biases [0,0] and input [1,2,3] it is [[4,5]], with
\* biases [-1,-1] and input [-5,-5,-5] it is [[0,0]].
C19_ReluLayerComputes ==
    /\ (/\ PredictCalled
        /\ loaded.t = "payload"
        /\ OneReluLayer
        /\ call.input.t = "array"
        /\ Len(call.input.a) = 1
        /\ Len(call.input.a[1]) = Len(this.weights.a[1])) =>
            returned =
                One([j \in DOMAIN this.biases.a[1] |->
                        Num(Max0(this.biases.a[1][j]
                                 + ColumnSum(call.input.a[1], this.weights.a[1], j,
                                             Len(this.weights.a[1]))))])
    /\ (/\ PredictCalled
        /\ HoldsLoadedContainer
        /\ loaded.data = ScenarioModel(<<0, 0>>)
        /\ call.input = One(<<Num(1), Num(2), Num(3)>>)) =>
            returned = One(<<Num(4), Num(5)>>)
    /\ (/\ PredictCalled
        /\ HoldsLoadedContainer
        /\ loaded.data = ScenarioModel(<<-1, -1>>)
        /\ call.input = One(<<Num(-5), Num(-5), Num(-5)>>)) =>
            returned = One(<<Num(0), Num(0)>>)

\* predict([[-5,-5,-5]]) on the scenario with biases [-1,-1]: both sums are
\* negative and the outputs are clipped.
C19_Witness ==
    /\ PredictCalled
    /\ HoldsLoadedContainer
    /\ OneReluLayer
    /\ loaded.data = ScenarioModel(<<-1, -1>>)
    /\ call.input = One(<<Num(-5), Num(-5), Num(-5)>>)
    /\ returned = One(<<Num(0), Num(0)>>)

C21_ReadOnlyCalls ==
    [][(call'.op \in {"predict", "modelSummary"}) =>
            /\ this' = this
            /\ call'.op = "predict" => returned' = predict(this, call'.input)]_vars

\* A predict that failed on an instance that holds loaded fields.
C21_Witness ==
    /\ PredictCalled
    /\ PredictFailed
    /\ loaded.t = "payload"
    /\ this # Constructed

ScalerChecks == {"transform", "inverseTransform", "getMinMax"}

\* C22: transform, inverseTransform and getMinMax fail with the 'Scaler has
\* not been fitted yet' error exactly when no fit call has completed before;
\* a fit call on empty data throws and leaves min_vals and max_vals unchanged.
C22_NotFittedError ==
    [][/\ scaler'.op \in ScalerChecks =>
            ((scaler'.threw = MsgNotFitted) <=> ~scaler.fitted)
       /\ (scaler'.op = "fit" /\ FitThrows(scaler'.data)) =>
            /\ scaler'.threw # ""
            /\ scaler'.min_vals = scaler.min_vals
            /\ scaler'.max_vals = scaler.max_vals]_vars

Named(fields) == {fields[k] : k \in DOMAIN fields}

\* The names of a header, and the cells of a row, of the columns not named.
KeptNames(names, fields) ==
    LET keep(n) == n \notin Named(fields) IN SelectSeq(names, keep)

KeptCells(row, fields) ==
    LET keep(c) == c.col \notin Named(fields) IN SelectSeq(row, keep)

\* C23: removeColumns(fields, data) with a non-empty list of existing names,
\* which may repeat, returns the rows with exactly the cells of the columns
\* not named, in order, and sets columnNames to the names not named, in
\* order, as long as every returned row; with a name of no column it throws
\* and columnNames is unchanged.
C23_RemoveColumnsKeepsOthers ==
    (handler.op = "removeColumns" /\ Len(handler.fields) > 0 /\ handler.given) =>
        IF Named(handler.fields) \subseteq Named(handler.before)
        THEN    /\ handler.threw = ""
                /\ handler.columnNames = KeptNames(handler.before, handler.fields)
                /\ Len(handler.result) = Len(handler.data)
                /\ \A r \in DOMAIN handler.result :
                    /\ handler.result[r] = KeptCells(handler.data[r], handler.fields)
                    /\ Len(handler.result[r]) = Len(handler.columnNames)
        ELSE /\ handler.threw # ""
             /\ handler.columnNames = handler.before

\* C24: split_dataset(X, Y, r) with |X| = |Y| = n and 0 <= r <= 1 returns
\* test sets of size floor(n*r) and training sets of size n - floor(n*r);
\* every sample index occurs exactly once across test and training set, and
\* each label stands at the position of the sample it was paired with; with
\* |X| # |Y| it throws and returns no split.
C24_SplitPartitions ==
    (split.op = "split_dataset") =>
        IF Len(split.X) = Len(split.Y)
        THEN /\ split.threw = ""
             /\ Len(split.X_test) * split.den <= Len(split.X) * split.num
             /\ Len(split.X) * split.num < (Len(split.X_test) + 1) * split.den
             /\ Len(split.Y_test) = Len(split.X_test)
             /\ Len(split.X_train) = Len(split.X) - Len(split.X_test)
             /\ Len(split.Y_train) = Len(split.X_train)
             /\ \A k \in DOMAIN split.X :
                    Cardinality({i \in DOMAIN split.X : split.shuffledIndices[i] = k}) = 1
             /\ \A i \in DOMAIN split.X :
                    /\ (split.X_test \o split.X_train)[i] = split.X[split.shuffledIndices[i]]
                    /\ (split.Y_test \o split.Y_train)[i] = split.Y[split.shuffledIndices[i]]
        ELSE /\ split.threw # ""
             /\ split.X_test = <<>> /\ split.Y_test = <<>>
             /\ split.X_train = <<>> /\ split.Y_train = <<>>

\* A split of the largest dataset into a test set and a training set, both
\* non-empty, with a ratio that is no multiple of 1/n and a shuffle that
\* moved the first sample.
C24_Witness ==
    /\ split.op = "split_dataset"
    /\ split.threw = ""
    /\ Len(split.X) = MaxSamples
    /\ Len(split.X_test) > 0
    /\ Len(split.X_train) > 0
    /\ Len(split.X_test) * split.den < Len(split.X) * split.num
    /\ split.shuffledIndices[1] # 1
    /\ \E i, j \in DOMAIN split.X : split.X[i] # split.X[j]

\* predict ran a forward pass: for some sample it called the feedforward of
\* a layer that has one.
ForwardPassRan ==
    /\ PredictCalled
    /\ ReachesFold(this, call.input)
    /\ \E k \in DOMAIN call.input.a :
        \E i \in DOMAIN DispatchedFrom(this, call.input.a[k], 1) :
            DispatchedFrom(this, call.input.a[k], 1)[i].feedforward

\* C25: loadSavedModel runs magic check, version check, decompression and
\* decoding in this order and stops at the first stage that fails, reporting
\* that stage's error (bad magic with a bad version reports InvalidFormat, a
\* bad version with an undecompressable payload UnsupportedVersion); and no
\* forward pass runs on a model that did not pass every stage.
C25_StagesInOrder ==
    /\ (FileRead /\ ~MagicPresent /\ VersionOffending) =>
            (stages[Len(stages)] = "magic" /\ ErrorKind(LastLine) = "InvalidFormat")
    /\ (FileRead /\ MagicPresent /\ VersionOffending
            /\ call.disk.payload.kind \in {"empty", "corrupt"}) =>
            (stages[Len(stages)] = "version" /\ ErrorKind(LastLine) = "UnsupportedVersion")
    /\ LoadCalled => stages = SubSeq(StageNames, 1, Len(stages))
    /\ ForwardPassRan => HoldsLoadedContainer

\* The all-zero vector of a length.
ZeroInput(length) == [i \in 1..length |-> Num(0)]

\* The arguments of the last kernel call have matching shapes: as many rows
\* as input entries, and in every row as many columns as biases.
ShapesMatch ==
    /\ Len(kernel.input) = Len(kernel.weights)
    /\ \A r \in DOMAIN kernel.weights : Len(kernel.weights[r]) = Len(kernel.biases)

C27_ComputeForwardChecksShapes ==
    (kernel.op = "computeForward" /\ ~ShapesMatch) =>
        /\ kernel.threw # ""
        /\ kernel.z = <<>>

\* C28: a Dense layer's feedforward returns z = computeForward(input,
\* weights, biases) and the outputs: f(z[j]) for every j, as long as z, for
\* relu, sigmoid, tanh and linear, and softmax(z) of the whole vector for
\* softmax, whatever the onGPU field of the Layers instance.
C28_FeedforwardActivates ==
    (kernel.op = "feedforward" /\ ShapesMatch) =>
        /\ kernel.threw = ""
        /\ kernel.z = computeForward(kernel.input, Arr(kernel.weights), Arr(kernel.biases))
        /\ IF kernel.fn = "softmax"
           THEN kernel.soft = softmax([j \in DOMAIN kernel.z |-> kernel.z[j].n])
           ELSE /\ kernel.outputs.t = "array"
                /\ Len(kernel.outputs.a) = Len(kernel.z)
                /\ \A j \in DOMAIN kernel.z :
                        kernel.outputs.a[j] = Activate(kernel.fn, kernel.z[j])

\* C29: for each sample predict evaluates the layers of the loaded sequence
\* in index order, each exactly once, the first on the raw input and each
\* next one on the output of the one before, and returns the last output;
\* the samples of a batch do not influence each other.
C29_FoldInOrder ==
    (PredictCalled /\ HoldsLoadedContainer /\ ValidBatch(call.input)) =>
        /\ returned.t = "array"
        /\ \A k \in DOMAIN call.input.a :
            /\ DispatchedFrom(this, call.input.a[k], 1) = this.layers
            /\ returned.a[k] = Feedforward(this, call.input.a[k]).predictions
            /\ returned.a[k] = predict(this, One(call.input.a[k])).a[1]

\* The logits of the last softmax call with c added to each.
Shifted(c) == [i \in DOMAIN kernel.logits |-> kernel.logits[i] + c]

\* C30: for a non-empty logit vector every value given to the exponential
\* is logit - max(logits), so at most 0 and 0 for one of them, and the sum
\* of the exponentials is at least 1; the output is as long as the input,
\* its entries sum to 1, and it is the same with a constant added to every
\* logit.
C30_SoftmaxStabilized ==
    (kernel.op = "softmax" /\ Len(kernel.logits) > 0) =>
        /\ \A i \in DOMAIN kernel.logits :
            /\ kernel.soft.shifted[i] <= 0
            /\ \A j \in DOMAIN kernel.logits :
                    kernel.soft.shifted[i] <= kernel.logits[i] - kernel.logits[j]
            /\ \E j \in DOMAIN kernel.logits :
                    kernel.soft.shifted[i] = kernel.logits[i] - kernel.logits[j]
        /\ \E i \in DOMAIN kernel.logits : kernel.soft.shifted[i] = 0
        /\ kernel.soft.sumExps >= Exp(0)
        /\ Len(kernel.soft.out) = Len(kernel.logits)
        /\ \A i \in DOMAIN kernel.soft.out :
            /\ kernel.soft.out[i].t = "number"
            /\ kernel.soft.out[i].den = kernel.soft.sumExps
            /\ kernel.soft.out[i].num > 0
        /\ SumOf([i \in DOMAIN kernel.soft.out |-> kernel.soft.out[i].num])
                = kernel.soft.sumExps
        /\ \A c \in {-1, 1} : softmax(Shifted(c)).out = kernel.soft.out

\* softmax of the longest vector with unequal logits, the largest of them
\* positive: an exponent below 0 next to the one that is 0.
C30_Witness ==
    /\ kernel.op = "softmax"
    /\ Len(kernel.logits) = MaxSize
    /\ \E i \in DOMAIN kernel.logits : kernel.logits[i] = LogitMax
    /\ \E i \in DOMAIN kernel.logits : kernel.soft.shifted[i] < 0
    /\ kernel.soft.sumExps > Exp(0)

====
